---- MODULE Spec2Model ----
(***************************************************************************)
(* Model of packages/server/index.ts: the two streaming completion         *)
(* adapters (createDeepSeekCompletion, createDeepInfraCompletion) and the  *)
(* Socket.IO connection handler.                                           *)
(***************************************************************************)
EXTENDS Integers, Sequences, FiniteSets, TLC

VARIABLES
    gens,       \* call id -> the async generator object an adapter call returned
    upstream,   \* call id -> the provider side of that call's HTTP stream
    sockets,    \* connection id -> "none" | "connected" | "disconnected"
    listeners,  \* connection id -> event names with a listener on the socket
    inbox,      \* connection id -> client events received, not yet dispatched
    handled,    \* connection id -> names of the client events dispatched so far
    outbox,     \* connection id -> events the server has sent to the client
    log         \* connection id -> console lines written for that socket

vars == <<gens, upstream, sockets, listeners, inbox, handled, outbox, log>>
adapterVars == <<gens, upstream>>
socketVars == <<sockets, listeners, inbox, handled, outbox, log>>

----------------------------------------------------------------------------
(* Bounds *)

MaxChunks == 4      \* chunks one upstream stream delivers
MaxRelayChunks == 2 \* chunks of the stream that runs beside the connections
MaxCalls == 2       \* adapter calls alive together
MaxTurns == 2       \* entries of a caller's conversation
MaxEvents == 3      \* events one client sends
MaxErrors == 1      \* socket "error" events per connection
NumConns == 1       \* client connections

CallIds == 1..MaxCalls
Conns == 1..NumConns

----------------------------------------------------------------------------
(* JavaScript values: string | undefined | null *)

Str(s) == [t |-> "string", v |-> s]
Undefined == [t |-> "undefined", v |-> ""]
Null == [t |-> "null", v |-> ""]

\* ToBoolean on string | undefined | null
Truthy(x) == x.t = "string" /\ x.v # ""

\* a || b
Or(a, b) == IF Truthy(a) THEN a ELSE b

\* An optional argument: omitted, or a value
Omitted == [given |-> FALSE, val |-> ""]
Given(x) == [given |-> TRUE, val |-> x]

\* { ...a, ...b }: own keys of a, overwritten by own keys of b
Spread(a, b) ==
    [k \in (DOMAIN a) \cup (DOMAIN b) |-> IF k \in DOMAIN b THEN b[k] ELSE a[k]]

----------------------------------------------------------------------------
(* Completion parameters.  A parameter value is only ever copied, never    *)
(* computed with, so each is written as its source literal.                *)

ParamKeys == {"top_p", "max_tokens", "stop", "temperature"}

DEFAULT_PARAMS ==
    [top_p |-> "1", max_tokens |-> "512", stop |-> "\n", temperature |-> "0.7"]

\* a caller's value for each field, different from the default
CallerValue == [top_p |-> "0.5", max_tokens |-> "64", stop |-> "END", temperature |-> "0.2"]

\* every partial CompletionParams object: any subset of the four fields
PartialParams == { [k \in S |-> CallerValue[k]] : S \in SUBSET ParamKeys }

\* the `params` argument: omitted, or a partial object
ParamArgs == {Omitted} \cup { [given |-> TRUE, val |-> p] : p \in PartialParams }

\* params: CompletionParams = DEFAULT_PARAMS
ParamsOrDefault(arg) == IF arg.given THEN arg.val ELSE DEFAULT_PARAMS

----------------------------------------------------------------------------
(* Messages *)

Msg(r, c) == [role |-> r, content |-> c]
Turns == { Msg("system", "Be terse."), Msg("user", "Hi"), Msg("assistant", "Hello") }

Conversations == UNION { [1..n -> Turns] : n \in 0..MaxTurns }

SystemPrompts == {"You are helpful.", "Be terse."}

\* Variant: the system entry is left out when the conversation brings its own.
RequestMessagesUnlessSystem(systemPrompt, messages) ==
    IF messages # <<>> /\ messages[1].role = "system"
    THEN messages
    ELSE <<Msg("system", systemPrompt)>> \o messages

\* [{ role: "system", content: systemPrompt }, ...messages]
RequestMessages(systemPrompt, messages) ==
    <<Msg("system", systemPrompt)>> \o messages

----------------------------------------------------------------------------
(* The request body of chat.completions.create *)

Providers == {"deepseek", "deepinfra"}

ModelArgs == {Omitted, Given("custom-model")}

\* createDeepSeekCompletion: { model, messages: [...], stream: true, ...params }
DeepSeekRequest(systemPrompt, messages, params, model) ==
    Spread([model |-> IF model.given THEN model.val ELSE "deepseek-chat",
            messages |-> RequestMessages(systemPrompt, messages),
            stream |-> TRUE],
           ParamsOrDefault(params))

\* createDeepInfraCompletion: { model, messages: [...], stream: true, ...params }
DeepInfraRequest(systemPrompt, messages, params, model) ==
    Spread([model |-> IF model.given THEN model.val ELSE "google/gemma-2-9b-it",
            messages |-> RequestMessages(systemPrompt, messages),
            stream |-> TRUE],
           ParamsOrDefault(params))

Args(provider, systemPrompt, messages, params, model) ==
    [provider |-> provider, systemPrompt |-> systemPrompt, messages |-> messages,
     params |-> params, model |-> model]

\* the request an adapter call with these arguments sends
RequestOf(a) ==
    IF a.provider = "deepseek"
    THEN DeepSeekRequest(a.systemPrompt, a.messages, a.params, a.model)
    ELSE DeepInfraRequest(a.systemPrompt, a.messages, a.params, a.model)

NoArgs == Args("deepseek", "", <<>>, Omitted, Omitted)
NoRequest == [model |-> "", messages |-> <<>>, stream |-> FALSE]

----------------------------------------------------------------------------
(* Upstream chunks: the shapes chunk.choices[0]?.delta?.content reads *)

Chunk(shape, content) == [shape |-> shape, content |-> content]

Chunks ==
    { Chunk("content", "Hello"), Chunk("content", " world"), Chunk("content", ""),
      Chunk("no_content", ""),      \* a delta without a content field
      Chunk("null_content", ""),    \* delta.content is null
      Chunk("no_choices", "") }     \* choices is empty

\* Variant: reads the non-streaming field, chunk.choices[0]?.message?.content,
\* which no streamed chunk carries.
MessageContent(chunk) == Undefined

\* chunk.choices[0]?.delta?.content
DeltaContent(chunk) ==
    CASE chunk.shape = "content" -> Str(chunk.content)
      [] chunk.shape = "null_content" -> Null
      [] OTHER -> Undefined

\* Variant: the `|| ""` fallback is missing.
FragmentNoFallback(chunk) == DeltaContent(chunk)

\* chunk.choices[0]?.delta?.content || ""
Fragment(chunk) == Or(DeltaContent(chunk), Str(""))

----------------------------------------------------------------------------
(* Adapter calls.  An async generator runs only while a consumer's next()  *)
(* is outstanding; it suspends at `await create(...)`, at each pull of the *)
(* `for await`, and at each `yield`.                                       *)

NoGen == [pc |-> "none", args |-> NoArgs, request |-> NoRequest, out |-> <<>>, pos |-> 0]
NoStream == [status |-> "none", request |-> NoRequest, chunks |-> <<>>]

\* Variant: one module-level stream, opened by the first call, read by every call.
SharedStream(i) == upstream[1]

\* const stream = await client.chat.completions.create(...): the call's own stream
StreamOf(i) == upstream[i]

\* Calling the async generator function returns a generator; no body code runs.
createCompletion(i, a) ==
    /\ gens[i].pc = "none"
    /\ \A j \in CallIds : j < i => gens[j].pc # "none"
    /\ gens' = [gens EXCEPT ![i] = [NoGen EXCEPT !.pc = "created", !.args = a]]
    /\ UNCHANGED <<upstream, socketVars>>

createDeepSeekCompletion(i, systemPrompt, messages, params, model) ==
    createCompletion(i, Args("deepseek", systemPrompt, messages, params, model))

createDeepInfraCompletion(i, systemPrompt, messages, params, model) ==
    createCompletion(i, Args("deepinfra", systemPrompt, messages, params, model))

\* The consumer's first next(): the body runs up to `await ...create({...})`,
\* which sends the request.
FirstNext(i) ==
    /\ gens[i].pc = "created"
    /\ gens' = [gens EXCEPT ![i].pc = "awaitCreate",
                            ![i].request = RequestOf(gens[i].args)]
    /\ upstream' = [upstream EXCEPT ![i] =
            [status |-> "pending", request |-> RequestOf(gens[i].args), chunks |-> <<>>]]
    /\ UNCHANGED socketVars

\* A later next(): the body resumes after `yield` and pulls the next chunk.
LaterNext(i) ==
    /\ gens[i].pc = "suspended"
    /\ gens' = [gens EXCEPT ![i].pc = "awaitChunk"]
    /\ UNCHANGED <<upstream, socketVars>>

\* The provider answers the initial request with a stream ...
UpstreamAccept(i) ==
    /\ upstream[i].status = "pending"
    /\ upstream' = [upstream EXCEPT ![i].status = "open"]
    /\ UNCHANGED <<gens, socketVars>>

\* ... or cannot be reached, or rejects it (bad key, non-2xx response).
UpstreamRefuse(i) ==
    /\ upstream[i].status = "pending"
    /\ upstream' = [upstream EXCEPT ![i].status = "refused"]
    /\ UNCHANGED <<gens, socketVars>>

UpstreamChunk(i, ch, limit) ==
    /\ upstream[i].status = "open"
    /\ Len(upstream[i].chunks) < limit
    /\ upstream' = [upstream EXCEPT ![i].chunks = Append(@, ch)]
    /\ UNCHANGED <<gens, socketVars>>

UpstreamEnd(i) ==
    /\ upstream[i].status = "open"
    /\ upstream' = [upstream EXCEPT ![i].status = "ended"]
    /\ UNCHANGED <<gens, socketVars>>

UpstreamError(i) ==
    /\ upstream[i].status = "open"
    /\ upstream' = [upstream EXCEPT ![i].status = "errored"]
    /\ UNCHANGED <<gens, socketVars>>

\* `await create(...)` resolves: the body enters the `for await`.
CreateResolved(i) ==
    /\ gens[i].pc = "awaitCreate"
    /\ StreamOf(i).status \in {"open", "ended", "errored"}
    /\ gens' = [gens EXCEPT ![i].pc = "awaitChunk"]
    /\ UNCHANGED <<upstream, socketVars>>

\* Variant: the rejection is caught and the generator returns normally.
CreateRejectedSwallowed(i) ==
    /\ gens[i].pc = "awaitCreate"
    /\ upstream[i].status = "refused"
    /\ gens' = [gens EXCEPT ![i].pc = "done"]
    /\ UNCHANGED <<upstream, socketVars>>

\* `await create(...)` rejects: nothing catches it, so the pending next() rejects
\* and the generator is finished.
CreateRejected(i) ==
    /\ gens[i].pc = "awaitCreate"
    /\ StreamOf(i).status = "refused"
    /\ gens' = [gens EXCEPT ![i].pc = "failed"]
    /\ UNCHANGED <<upstream, socketVars>>

\* for await (const chunk of stream) { yield chunk.choices[0]?.delta?.content || "" }
YieldChunk(i) ==
    /\ gens[i].pc = "awaitChunk"
    /\ gens[i].pos < Len(StreamOf(i).chunks)
    /\ gens' = [gens EXCEPT ![i].pc = "suspended",
                            ![i].pos = @ + 1,
                            ![i].out = Append(@, Fragment(StreamOf(i).chunks[gens[i].pos + 1]))]
    /\ UNCHANGED <<upstream, socketVars>>

\* The stream is exhausted: the loop ends and the generator returns.
StreamDone(i) ==
    /\ gens[i].pc = "awaitChunk"
    /\ gens[i].pos = Len(StreamOf(i).chunks)
    /\ StreamOf(i).status = "ended"
    /\ gens' = [gens EXCEPT ![i].pc = "done"]
    /\ UNCHANGED <<upstream, socketVars>>

\* The stream throws after its last chunk: the pending next() rejects.
StreamThrows(i) ==
    /\ gens[i].pc = "awaitChunk"
    /\ gens[i].pos = Len(StreamOf(i).chunks)
    /\ StreamOf(i).status = "errored"
    /\ gens' = [gens EXCEPT ![i].pc = "failed"]
    /\ UNCHANGED <<upstream, socketVars>>

----------------------------------------------------------------------------
(* The Socket.IO server: io.on("connection", ...) and the listeners it     *)
(* registers.  A client may emit any event name; the socket runs the       *)
(* listeners registered for that name and ignores a name that has none.    *)

Event(name, text) == [name |-> name, text |-> text]

\* what a client sends: the declared "hello" event, and a completion request
ClientEvents == { Event("hello", "world"), Event("completion", "Hi") }

Outbound(type, data) == [type |-> type, data |-> data]

\* io.on("connection", (socket) => { console.log(...); socket.on("hello", ...);
\* socket.on("disconnect", ...); socket.on("error", ...) })
Connection(c) ==
    /\ sockets[c] = "none"
    /\ sockets' = [sockets EXCEPT ![c] = "connected"]
    /\ log' = [log EXCEPT ![c] = Append(@, "Client connected")]
    /\ listeners' = [listeners EXCEPT ![c] = {"hello", "disconnect", "error"}]
    /\ UNCHANGED <<inbox, handled, outbox, adapterVars>>

\* The client emits an event; it waits on the socket until dispatched.
ClientEmit(c, ev) ==
    /\ sockets[c] = "connected"
    /\ Len(inbox[c]) + Len(handled[c]) < MaxEvents
    /\ inbox' = [inbox EXCEPT ![c] = Append(@, ev)]
    /\ UNCHANGED <<sockets, listeners, handled, outbox, log, adapterVars>>

\* socket.on("hello", (text, callback) => { callback(`hello ${text}`) })
Hello(c) ==
    /\ sockets[c] = "connected"
    /\ inbox[c] # <<>>
    /\ Head(inbox[c]).name = "hello"
    /\ "hello" \in listeners[c]
    /\ outbox' = [outbox EXCEPT ![c] = Append(@, Outbound("ack", "hello " \o Head(inbox[c]).text))]
    /\ inbox' = [inbox EXCEPT ![c] = Tail(@)]
    /\ handled' = [handled EXCEPT ![c] = Append(@, "hello")]
    /\ UNCHANGED <<sockets, listeners, log, adapterVars>>

\* An event whose name has no listener on the socket: nothing runs.
NoListener(c) ==
    /\ sockets[c] = "connected"
    /\ inbox[c] # <<>>
    /\ Head(inbox[c]).name \notin listeners[c]
    /\ inbox' = [inbox EXCEPT ![c] = Tail(@)]
    /\ handled' = [handled EXCEPT ![c] = Append(@, Head(inbox[c]).name)]
    /\ UNCHANGED <<sockets, listeners, outbox, log, adapterVars>>

\* socket.on("disconnect", (reason) => { console.log(...) }); a closed socket
\* dispatches nothing further.
Disconnect(c) ==
    /\ sockets[c] = "connected"
    /\ sockets' = [sockets EXCEPT ![c] = "disconnected"]
    /\ inbox' = [inbox EXCEPT ![c] = <<>>]
    /\ log' = [log EXCEPT ![c] = Append(@, "Client disconnected")]
    /\ UNCHANGED <<listeners, handled, outbox, adapterVars>>

SocketErrors(c) == Len(SelectSeq(log[c], LAMBDA l : l = "socket error"))

\* socket.on("error", (error) => { console.error(...) })
SocketError(c) ==
    /\ sockets[c] = "connected"
    /\ SocketErrors(c) < MaxErrors
    /\ log' = [log EXCEPT ![c] = Append(@, "socket error")]
    /\ UNCHANGED <<sockets, listeners, inbox, handled, outbox, adapterVars>>

----------------------------------------------------------------------------
(* Initial state: no adapter call made, no client connected *)

Init ==
    /\ gens = [i \in CallIds |-> NoGen]
    /\ upstream = [i \in CallIds |-> NoStream]
    /\ sockets = [c \in Conns |-> "none"]
    /\ listeners = [c \in Conns |-> {}]
    /\ inbox = [c \in Conns |-> <<>>]
    /\ handled = [c \in Conns |-> <<>>]
    /\ outbox = [c \in Conns |-> <<>>]
    /\ log = [c \in Conns |-> <<>>]

----------------------------------------------------------------------------
(* RequestSpec: one adapter call over every argument combination, up to    *)
(* the provider's answer to the initial request.                           *)

RequestNext ==
    \/ \E s \in SystemPrompts, m \in Conversations, q \in ParamArgs, mo \in ModelArgs :
          \/ createDeepSeekCompletion(1, s, m, q, mo)
          \/ createDeepInfraCompletion(1, s, m, q, mo)
    \/ FirstNext(1)
    \/ UpstreamAccept(1)
    \/ UpstreamRefuse(1)
    \/ CreateResolved(1)
    \/ CreateRejected(1)

RequestSpec == Init /\ [][RequestNext]_vars

----------------------------------------------------------------------------
(* StreamSpec: one adapter call consumed to its end over every chunk       *)
(* sequence of up to MaxChunks chunks.                                     *)

StreamNext ==
    \/ createDeepSeekCompletion(1, "You are helpful.", <<Msg("user", "Hi")>>, Omitted, Omitted)
    \/ createDeepInfraCompletion(1, "You are helpful.", <<Msg("user", "Hi")>>, Omitted, Omitted)
    \/ FirstNext(1)
    \/ LaterNext(1)
    \/ UpstreamAccept(1)
    \/ UpstreamRefuse(1)
    \/ \E ch \in Chunks : UpstreamChunk(1, ch, MaxChunks)
    \/ UpstreamEnd(1)
    \/ UpstreamError(1)
    \/ CreateResolved(1)
    \/ CreateRejected(1)
    \/ YieldChunk(1)
    \/ StreamDone(1)
    \/ StreamThrows(1)

StreamSpec == Init /\ [][StreamNext]_vars

----------------------------------------------------------------------------
(* Spec: the whole program, client connections beside an adapter call.     *)
(* Nothing in index.ts calls an adapter, so the call and its consumer are  *)
(* an unconstrained environment.                                           *)

RelayChunks == { Chunk("content", "A"), Chunk("content", "B") }

AdapterStep(i) ==
    \/ createDeepSeekCompletion(i, "You are helpful.", <<Msg("user", "Hi")>>, Omitted, Omitted)
    \/ createDeepInfraCompletion(i, "You are helpful.", <<Msg("user", "Hi")>>, Omitted, Omitted)
    \/ FirstNext(i)
    \/ LaterNext(i)
    \/ UpstreamAccept(i)
    \/ UpstreamRefuse(i)
    \/ \E ch \in RelayChunks : UpstreamChunk(i, ch, MaxRelayChunks)
    \/ UpstreamEnd(i)
    \/ UpstreamError(i)

\* the steps the event loop takes by itself once their cause has happened
GeneratorStep(i) ==
    \/ CreateResolved(i)
    \/ CreateRejected(i)
    \/ YieldChunk(i)
    \/ StreamDone(i)
    \/ StreamThrows(i)

ServerStep(c) ==
    \/ Hello(c)
    \/ NoListener(c)

Next ==
    \/ \E c \in Conns :
          \/ Connection(c)
          \/ \E ev \in ClientEvents : ClientEmit(c, ev)
          \/ ServerStep(c)
          \/ Disconnect(c)
          \/ SocketError(c)
    \/ AdapterStep(1)
    \/ GeneratorStep(1)

Spec == Init /\ [][Next]_vars

\* Node runs every pending callback: a received event is dispatched, and a
\* settled promise resumes the generator awaiting it.
FairSpec ==
    /\ Spec
    /\ \A c \in Conns : WF_vars(ServerStep(c))
    /\ WF_vars(GeneratorStep(1))

----------------------------------------------------------------------------
(* MultiSpec: several adapter calls alive together, each consumed to its   *)
(* end as `for await` does.                                                *)

MultiChunks == { Chunk("content", "A"), Chunk("content", "") }

ConsumerStep(i) ==
    \/ FirstNext(i)
    \/ LaterNext(i)

RECURSIVE ChunksSent(_)
ChunksSent(i) == IF i = 0 THEN 0 ELSE Len(upstream[i].chunks) + ChunksSent(i - 1)

\* the calls alternate between the two adapters
MultiNext ==
    \E i \in CallIds :
        \/ /\ i % 2 = 1
           /\ createDeepSeekCompletion(i, "You are helpful.", <<Msg("user", "Hi")>>, Omitted, Omitted)
        \/ /\ i % 2 = 0
           /\ createDeepInfraCompletion(i, "You are helpful.", <<Msg("user", "Hi")>>, Omitted, Omitted)
        \/ ConsumerStep(i)
        \/ UpstreamAccept(i)
        \/ UpstreamRefuse(i)
        \/ \E ch \in MultiChunks :
              ChunksSent(MaxCalls) < MaxRelayChunks /\ UpstreamChunk(i, ch, MaxRelayChunks)
        \/ UpstreamEnd(i)
        \/ UpstreamError(i)
        \/ GeneratorStep(i)

MultiSpec == Init /\ [][MultiNext]_vars

----------------------------------------------------------------------------
(* Properties of the request (RequestSpec) *)

Sent(i) == upstream[i].status # "none"

\* C2: for every partial parameter set (and the omitted argument), the request
\* carries the caller's value for each field supplied and the default for each
\* field not supplied.
C2_FieldwiseDefaults ==
    \A i \in CallIds : Sent(i) =>
        \A k \in ParamKeys :
            /\ k \in DOMAIN upstream[i].request
            /\ upstream[i].request[k] =
                  IF gens[i].args.params.given /\ k \in DOMAIN gens[i].args.params.val
                  THEN gens[i].args.params.val[k]
                  ELSE DEFAULT_PARAMS[k]

\* C5: the messages sent upstream are the system-role message carrying the
\* system prompt at index 0, then the caller's conversation unchanged, in order.
C5_SystemPromptFirst ==
    \A i \in CallIds : Sent(i) =>
        LET sent == upstream[i].request.messages
            conv == gens[i].args.messages
        IN  /\ Len(sent) = Len(conv) + 1
            /\ sent[1] = [role |-> "system", content |-> gens[i].args.systemPrompt]
            /\ \A k \in 1..Len(conv) : sent[k + 1] = conv[k]

\* C5 witness: a request was sent for a conversation that already begins with
\* a system-role message.
C5_Witness ==
    \E i \in CallIds :
        /\ Sent(i)
        /\ Len(gens[i].args.messages) = 2
        /\ gens[i].args.messages[1].role = "system"
        /\ gens[i].args.provider = "deepinfra"

----------------------------------------------------------------------------
(* Properties of the fragment sequence (StreamSpec) *)

IsText(ch) == ch.shape = "content" /\ ch.content # ""
NonEmpty(f) == f # Str("")
Consumed(i) == SubSeq(upstream[i].chunks, 1, gens[i].pos)

Example == <<Chunk("content", "Hello"), Chunk("content", ""),
             Chunk("content", " world"), Chunk("no_content", "")>>

C6_RefusalFails ==
    \A i \in CallIds : upstream[i].status = "refused" =>
        /\ gens[i].out = <<>>
        /\ gens[i].pc \in {"awaitCreate", "failed"}

\* C6 witness: a refused call whose consumer saw next() reject.
C6_Witness ==
    \E i \in CallIds : upstream[i].status = "refused" /\ gens[i].pc = "failed"

\* C9: each chunk yields at most one fragment, a chunk with non-empty content
\* yields exactly that string, and fragments keep the order of their chunks.
C9_OrderPreserved ==
    \A i \in CallIds :
        LET texts == SelectSeq(Consumed(i), IsText)
            frags == SelectSeq(gens[i].out, NonEmpty)
        IN  /\ Len(gens[i].out) <= gens[i].pos
            /\ Len(frags) = Len(texts)
            /\ \A k \in 1..Len(texts) : frags[k] = Str(texts[k].content)

\* C9 witness: two different non-empty chunks around an empty one were yielded.
C9_Witness ==
    \E i \in CallIds :
        /\ Consumed(i) = <<Chunk("content", " world"), Chunk("null_content", ""),
                           Chunk("content", "Hello")>>
        /\ gens[i].pc = "suspended"

Closed(i) == upstream[i].status \in {"ended", "errored"}
Terminated(i) == gens[i].pc \in {"done", "failed"}

\* what is left of a sequence: the chunks not yet yielded, then the steps to
\* the next suspension
Remaining(g, s) ==
    2 * (Len(s.chunks) - g.pos) +
        CASE g.pc = "created" -> 4
          [] g.pc = "awaitCreate" -> 3
          [] g.pc = "suspended" -> 2
          [] g.pc = "awaitChunk" -> 1
          [] OTHER -> 0

\* C10: once the upstream stream has ended or errored, the fragment sequence
\* terminates (done or error) and produces nothing afterwards: until it has
\* terminated a step of it is always possible, and every step brings it closer;
\* and each call's sequence is made of its own upstream stream's chunks only.
C10_FiniteAndFresh ==
    /\ [](\A i \in CallIds :
            /\ Len(gens[i].out) = gens[i].pos
            /\ gens[i].pos <= Len(upstream[i].chunks)
            /\ \A k \in 1..Len(gens[i].out) :
                  gens[i].out[k] = Str(upstream[i].chunks[k].content))
    /\ [](\A i \in CallIds :
            (Closed(i) /\ ~Terminated(i)) => ENABLED (ConsumerStep(i) \/ GeneratorStep(i)))
    /\ [][\A i \in CallIds :
            /\ (Closed(i) /\ gens'[i] # gens[i]) =>
                  Remaining(gens'[i], upstream'[i]) < Remaining(gens[i], upstream[i])
            /\ Terminated(i) => gens'[i] = gens[i]]_vars

\* C10 witness: two calls have finished, one normally and one by the stream's
\* error, after yielding different fragments.
C10_Witness ==
    /\ gens[1].pc = "done"
    /\ gens[2].pc = "failed"
    /\ gens[1].out = <<Str("A")>>
    /\ gens[2].out = <<Str("")>>

----------------------------------------------------------------------------
(* Properties of the connection handler (Spec, FairSpec) *)

Count(seq, Test(_)) == Len(SelectSeq(seq, Test))

IsRequest(name) == name = "completion"
IsTerminal(ev) == ev.type \in {"completion-end", "completion-error"} /\ ev.data # "SessionBusy"
IsBusy(ev) == ev.data = "SessionBusy"
IsRelayed(ev) == ev.type # "ack"

Requests(c) == Count(handled[c], IsRequest)
Terminals(c) == Count(outbox[c], IsTerminal)
Rejections(c) == Count(outbox[c], IsBusy)

\* C3: every completion request the server has received is answered by exactly
\* one terminal event (completion-end or completion-error), never by silence
\* and never by two.
C3_OneTerminalPerRequest ==
    /\ [](\A c \in Conns : Terminals(c) + Rejections(c) <= Requests(c))
    /\ \A c \in Conns : \A n \in 1..MaxEvents :
          (Requests(c) >= n) ~>
              (Terminals(c) + Rejections(c) >= n \/ sockets[c] = "disconnected")

\* The session of a connection is Streaming from the dispatch of a request it
\* accepted until that request's terminal event.
Streaming(c) == Requests(c) - Rejections(c) > Terminals(c)

FragmentEvents(out) == [k \in 1..Len(out) |-> Outbound("fragment", out[k].v)]

Delivered(c, out) ==
    SelectSeq(outbox[c], IsRelayed) =
        FragmentEvents(out) \o <<Outbound("completion-error", "StreamInterrupted")>>

====
